---- MODULE Spec2Model ----
(***************************************************************************)
(* The CSG node arena of csg.h: its editing API (add_edit, add_sphere and  *)
(* subtract_sphere acting on a CsgTree), the smooth operators (smin, smax, *)
(* eval_operation), the bake into a flat array (bake_eval_csg) and the two *)
(* evaluators (the recursive and the flat eval_csg).                       *)
(*                                                                         *)
(* Spec and SpecApi call the editing API; SpecMath calls the smooth        *)
(* operators; SpecEval and SpecBox edit, bake and evaluate scenes;         *)
(* SpecBake edits and bakes; SpecThreads runs evaluations concurrently.    *)
(*                                                                         *)
(* The script parser of parser.h (parse_csg) builds trees in SpecParse.    *)
(* The host of main.cpp: parallel_for on its own in SpecParallel, and the  *)
(* UI thread's callbacks with reset_display and the render task it starts  *)
(* in SpecHost (SpecHostFair adds the scheduler's fairness).               *)
(*                                                                         *)
(* Node indices are the code's: 0-based, -1 for "none".  The node vector   *)
(* is a sequence, so the node with index i is nodes[i + 1] (see At).       *)
(* The editing API never computes with the floats it stores, so the edit   *)
(* specifications pass them as integers.  The evaluators compute: there a  *)
(* float is an exact rational <<numerator, denominator>> (see R).          *)
(***************************************************************************)
EXTENDS Integers, Sequences, FiniteSets, TLC

\* ------------------------------------------------------------------ bounds

\* add_edit is called while fewer than MaxEdits calls have grown the arena.
MaxEdits == 4

\* ------------------------------------------------------------ input values

\* params[16] of CsgPrimitve.
ParamCount == 16

\* The contents of a member that CsgNode() {} leaves uninitialised: the
\* default constructor sets parent and children only, so operation and
\* primitive of a fresh node are indeterminate.  The marker stands for every
\* bit pattern at once; a copy of it is still indeterminate.
Indet == [indeterminate |-> TRUE]

\* float params[16] initialised from a braced list: the values given, then
\* zeros.
Params(given) == [i \in 1..ParamCount |-> IF i <= Len(given) THEN given[i] ELSE 0]

\* {{center.x, center.y, center.z, radius}, primitive_type::sphere}
SpherePrimitive(center, radius) ==
  [type |-> "sphere", params |-> Params(<<center[1], center[2], center[3], radius>>)]

BoxPrimitive(p) == [type |-> "box", params |-> Params(p)]

\* The primitives and operations the callers pass in.
Centers == {<<1, 2, 3>>}
Radii == {4}
Softness == {0, 1}
PrimValues == {SpherePrimitive(<<0, 0, 0>>, 1), BoxPrimitive(<<1, 1, 1, 1>>)}
OpValues == {[blend |-> 1, softness |-> 0], [blend |-> -1, softness |-> 1]}

\* ------------------------------------------------------------------- state

VARIABLES
  csg,      \* the CsgTree: [nodes, root]
  ndebug,   \* whether the build defines NDEBUG (assert compiled out)
  status,   \* "running", or "aborted" once an assert has failed
  last,     \* the last call made: [fn, parent, args, ret]
  handles,  \* the indices the caller has been handed and still holds as leaves
  fresh,    \* the primitive an uninitialised CsgNode::primitive reads as
  flat,     \* the vector<CsgXXX> last returned by bake_eval_csg
  out,      \* the last call if it was an evaluation: [fn, point, value, faults]
  calc,     \* the last call of smin, smax or eval_operation
  threads,  \* the evaluations of flat in progress, one per thread
  names,    \* parse_csg's unordered_map<string, int> names
  app,      \* the app_state of main.cpp, and where its UI thread stands
  pf        \* the parallel_for in progress: its workers and next_idx

vars == <<csg, ndebug, status, last, handles, fresh, flat, out, calc, threads,
          names, app, pf>>

\* unordered_map<string, int> names; before any statement.
NoNames == [n \in {} |-> -1]

\* No application: the specifications of csg.h alone.
NoApp == [pc |-> "none"]

\* No call of func yet.
NoCalls == [p \in {} |-> 0]

\* No parallel_for in progress.
NoParallelFor ==
  [pc |-> "idle", hardware_concurrency |-> 0, func |-> "none", size |-> <<0, 0>>,
   next_idx |-> 0, workers |-> <<>>, calls |-> NoCalls]

\* CsgNode() {}: parent = -1, children = {-1, -1}, the payloads untouched.
CsgNode == [parent |-> -1, children |-> <<-1, -1>>, operation |-> Indet, primitive |-> Indet]

\* CsgTree{}: nodes = {}, root = -1.
CsgTree == [nodes |-> <<>>, root |-> -1]

\* csg.nodes[i]
At(nodes, i) == nodes[i + 1]

\* csg.nodes[i].<field> = value
Put(nodes, i, field, value) == [nodes EXCEPT ![i + 1] = [@ EXCEPT ![field] = value]]

\* node.children == vec2i{-1, -1}
IsLeaf(node) == node.children = <<-1, -1>>

\* ---------------------------------------------------------------- add_edit

\* add_edit_empty storing the operation in the node as well.
add_edit_empty_keeps_op(tree, parent, op, prim) ==
  LET index == Len(tree.nodes)
      n == [CsgNode EXCEPT !.primitive = prim, !.operation = op]
  IN  [csg |-> [nodes |-> Append(tree.nodes, n), root |-> 0],
       ret |-> index, aborted |-> FALSE]

\* if (csg.nodes.empty()) { ... }: one node holding prim, root = 0.
add_edit_empty(tree, parent, op, prim) ==
  LET index == Len(tree.nodes)
      n == [CsgNode EXCEPT !.primitive = prim]
  IN  [csg |-> [nodes |-> Append(tree.nodes, n), root |-> 0],
       ret |-> index, aborted |-> FALSE]

\* add_edit_root without csg.nodes[parent].parent = csg.root.
add_edit_root_no_reparent(tree, parent, op, prim) ==
  LET index == Len(tree.nodes)
      grown == Append(Append(tree.nodes, CsgNode), CsgNode)
      root == [At(grown, index) EXCEPT !.children = <<parent, index + 1>>,
                                       !.operation = op]
      n == [At(grown, index + 1) EXCEPT !.parent = index, !.primitive = prim]
  IN  [csg |-> [nodes |-> [grown EXCEPT ![index + 1] = root, ![index + 2] = n],
                root |-> index],
       ret |-> index + 1, aborted |-> FALSE]

\* add_edit_root with the new leaf put before the new root.
add_edit_root_leaf_first(tree, parent, op, prim) ==
  LET index == Len(tree.nodes)
      grown == Append(Append(tree.nodes, CsgNode), CsgNode)
      reparented == Put(grown, parent, "parent", index + 1)
      root == [At(reparented, index + 1) EXCEPT !.children = <<parent, index>>,
                                                !.operation = op]
      n == [At(reparented, index) EXCEPT !.parent = index + 1, !.primitive = prim]
  IN  [csg |-> [nodes |-> [reparented EXCEPT ![index + 2] = root, ![index + 1] = n],
                root |-> index + 1],
       ret |-> index, aborted |-> FALSE]

\* add_edit_root returning the new root's index.
add_edit_root_returns_root(tree, parent, op, prim) ==
  LET index == Len(tree.nodes)
      grown == Append(Append(tree.nodes, CsgNode), CsgNode)
      reparented == Put(grown, parent, "parent", index)
      root == [At(reparented, index) EXCEPT !.children = <<parent, index + 1>>,
                                            !.operation = op]
      n == [At(reparented, index + 1) EXCEPT !.parent = index, !.primitive = prim]
  IN  [csg |-> [nodes |-> [reparented EXCEPT ![index + 1] = root, ![index + 2] = n],
                root |-> index],
       ret |-> index, aborted |-> FALSE]

\* add_edit_root with the new leaf as the root's first child.
add_edit_root_new_leaf_first_child(tree, parent, op, prim) ==
  LET index == Len(tree.nodes)
      grown == Append(Append(tree.nodes, CsgNode), CsgNode)
      reparented == Put(grown, parent, "parent", index)
      root == [At(reparented, index) EXCEPT !.children = <<index + 1, parent>>,
                                            !.operation = op]
      n == [At(reparented, index + 1) EXCEPT !.parent = index, !.primitive = prim]
  IN  [csg |-> [nodes |-> [reparented EXCEPT ![index + 1] = root, ![index + 2] = n],
                root |-> index],
       ret |-> index + 1, aborted |-> FALSE]

\* if (parent == csg.root) { ... }: a new root above the old one.
add_edit_root(tree, parent, op, prim) ==
  LET index == Len(tree.nodes)
      grown == Append(Append(tree.nodes, CsgNode), CsgNode)
      reparented == Put(grown, parent, "parent", index)
      root == [At(reparented, index) EXCEPT !.children = <<parent, index + 1>>,
                                            !.operation = op]
      n == [At(reparented, index + 1) EXCEPT !.parent = index, !.primitive = prim]
  IN  [csg |-> [nodes |-> [reparented EXCEPT ![index + 1] = root, ![index + 2] = n],
                root |-> index],
       ret |-> index + 1, aborted |-> FALSE]

\* assert(csg.nodes[parent].children.x == -1);
\* assert(csg.nodes[parent].children.y == -1);
attach_asserts_hold(tree, parent) ==
  /\ At(tree.nodes, parent).children[1] = -1
  /\ At(tree.nodes, parent).children[2] = -1

\* add_edit_leaf naming the first new node in both child slots.
add_edit_leaf_same_child(tree, parent, op, prim) ==
  LET index == Len(tree.nodes)
      a == [CsgNode EXCEPT !.parent = parent,
                           !.operation = At(tree.nodes, parent).operation]
      b == [CsgNode EXCEPT !.parent = parent, !.primitive = prim]
      grown == Append(Append(tree.nodes, a), b)
      rewired == Put(Put(grown, parent, "children", <<index, index>>),
                     parent, "operation", op)
  IN  [csg |-> [nodes |-> rewired, root |-> tree.root],
       ret |-> index + 1, aborted |-> FALSE]

\* add_edit_leaf setting children.x only.
add_edit_leaf_one_child(tree, parent, op, prim) ==
  LET index == Len(tree.nodes)
      a == [CsgNode EXCEPT !.parent = parent,
                           !.operation = At(tree.nodes, parent).operation]
      b == [CsgNode EXCEPT !.parent = parent, !.primitive = prim]
      grown == Append(Append(tree.nodes, a), b)
      rewired == Put(Put(grown, parent, "children", <<index, -1>>),
                     parent, "operation", op)
  IN  [csg |-> [nodes |-> rewired, root |-> tree.root],
       ret |-> index + 1, aborted |-> FALSE]

\* add_edit_leaf without a.parent = parent.
add_edit_leaf_copy_without_parent(tree, parent, op, prim) ==
  LET index == Len(tree.nodes)
      a == [CsgNode EXCEPT !.operation = At(tree.nodes, parent).operation]
      b == [CsgNode EXCEPT !.parent = parent, !.primitive = prim]
      grown == Append(Append(tree.nodes, a), b)
      rewired == Put(Put(grown, parent, "children", <<index, index + 1>>),
                     parent, "operation", op)
  IN  [csg |-> [nodes |-> rewired, root |-> tree.root],
       ret |-> index + 1, aborted |-> FALSE]

\* add_edit_leaf naming the attach point itself as its first child.
add_edit_leaf_child_is_parent(tree, parent, op, prim) ==
  LET index == Len(tree.nodes)
      a == [CsgNode EXCEPT !.parent = parent,
                           !.operation = At(tree.nodes, parent).operation]
      b == [CsgNode EXCEPT !.parent = parent, !.primitive = prim]
      grown == Append(Append(tree.nodes, a), b)
      rewired == Put(Put(grown, parent, "children", <<parent, index + 1>>),
                     parent, "operation", op)
  IN  [csg |-> [nodes |-> rewired, root |-> tree.root],
       ret |-> index + 1, aborted |-> FALSE]

\* The tail of add_edit: two nodes under the attach point.
add_edit_leaf(tree, parent, op, prim) ==
  LET index == Len(tree.nodes)
      a == [CsgNode EXCEPT !.parent = parent,
                           !.operation = At(tree.nodes, parent).operation]
      b == [CsgNode EXCEPT !.parent = parent, !.primitive = prim]
      grown == Append(Append(tree.nodes, a), b)
      rewired == Put(Put(grown, parent, "children", <<index, index + 1>>),
                     parent, "operation", op)
  IN  [csg |-> [nodes |-> rewired, root |-> tree.root],
       ret |-> index + 1, aborted |-> FALSE]

\* int add_edit(CsgTree& csg, int parent, const CsgOperation& op,
\*              const CsgPrimitve& prim)
\* A failing assert aborts the process unless NDEBUG compiles it out.
add_edit(tree, parent, op, prim) ==
  IF tree.nodes = <<>> THEN add_edit_empty(tree, parent, op, prim)
  ELSE IF parent = tree.root THEN add_edit_root(tree, parent, op, prim)
  ELSE IF ~ndebug /\ ~attach_asserts_hold(tree, parent)
       THEN [csg |-> tree, ret |-> -1, aborted |-> TRUE]
  ELSE add_edit_leaf(tree, parent, op, prim)

\* bool converted to float in the braced initialiser of CsgOperation.
BoolToFloat(b) == IF b THEN 1 ELSE 0

\* add_edit(csg, parent, {true, softness}, {{center.x, ...}, sphere})
add_sphere(tree, parent, softness, center, radius) ==
  add_edit(tree, parent, [blend |-> BoolToFloat(TRUE), softness |-> softness],
           SpherePrimitive(center, radius))

\* add_edit(csg, parent, {false, softness}, {{center.x, ...}, sphere})
subtract_sphere(tree, parent, softness, center, radius) ==
  add_edit(tree, parent, [blend |-> BoolToFloat(FALSE), softness |-> softness],
           SpherePrimitive(center, radius))

\* ------------------------------------------------------------- arithmetic

RECURSIVE GCD(_, _)
GCD(a, b) == IF b = 0 THEN a ELSE GCD(b, a % b)

\* The rational n/d in lowest terms with a positive denominator.
R(n, d) ==
  LET sign == IF d < 0 THEN -1 ELSE 1
      g == GCD(IF n < 0 THEN -n ELSE n, IF d < 0 THEN -d ELSE d)
  IN  IF n = 0 THEN <<0, 1>> ELSE <<(sign * n) \div g, (sign * d) \div g>>

Zero == R(0, 1)
One == R(1, 1)
Quarter == R(1, 4)

RAdd(a, b) == R(a[1] * b[2] + b[1] * a[2], a[2] * b[2])
RNeg(a) == <<-a[1], a[2]>>
RSub(a, b) == RAdd(a, RNeg(b))
RMul(a, b) == R(a[1] * b[1], a[2] * b[2])
RDiv(a, b) == R(a[1] * b[2], a[2] * b[1])
RLe(a, b) == a[1] * b[2] <= b[1] * a[2]
RLt(a, b) == a[1] * b[2] < b[1] * a[2]

\* The square root of a rational that is a perfect square; the sample
\* points are chosen so that every distance taken is one.
ISqrt(n) == CHOOSE r \in 0..n : r * r = n
RSqrt(a) == <<ISqrt(a[1]), ISqrt(a[2])>>

\* yocto::min, yocto::max, yocto::abs, yocto::lerp and yocto::length.
min(a, b) == IF RLt(a, b) THEN a ELSE b
max(a, b) == IF RLt(b, a) THEN a ELSE b
abs(a) == IF a[1] < 0 THEN RNeg(a) ELSE a
lerp(a, b, u) == RAdd(RMul(a, RSub(One, u)), RMul(b, u))
length(v) == RSqrt(RAdd(RAdd(RMul(v[1], v[1]), RMul(v[2], v[2])), RMul(v[3], v[3])))

\* -------------------------------------------------------- smooth operators

\* smin without the clamp of h at 0.
smin_unclamped(a, b, k) ==
  IF k = Zero THEN min(a, b)
  ELSE LET h == RDiv(RSub(k, abs(RSub(a, b))), k)
       IN  RSub(min(a, b), RMul(RMul(RMul(h, h), k), Quarter))

\* float smin(float a, float b, float k)
smin(a, b, k) ==
  IF k = Zero THEN min(a, b)
  ELSE LET h == RDiv(max(RSub(k, abs(RSub(a, b))), Zero), k)
       IN  RSub(min(a, b), RMul(RMul(RMul(h, h), k), Quarter))

\* float smax(float a, float b, float k)
smax(a, b, k) ==
  IF k = Zero THEN max(a, b)
  ELSE LET h == RDiv(max(RSub(k, abs(RSub(a, b))), Zero), k)
       IN  RAdd(max(a, b), RMul(RMul(RMul(h, h), k), Quarter))

\* eval_operation subtracting with smax(f, g) in place of smax(f, -g).
eval_operation_keeps_sign_of_g(f, g, blend, softness) ==
  IF RLe(Zero, blend)
    THEN lerp(f, smin(f, g, softness), blend)
    ELSE lerp(f, smax(f, g, softness), RNeg(blend))

\* eval_operation subtracting with the weight blend in place of -blend.
eval_operation_signed_weight(f, g, blend, softness) ==
  IF RLe(Zero, blend)
    THEN lerp(f, smin(f, g, softness), blend)
    ELSE lerp(f, smax(f, RNeg(g), softness), blend)

\* float eval_operation(float f, float g, float blend, float softness)
eval_operation(f, g, blend, softness) ==
  IF RLe(Zero, blend)
    THEN lerp(f, smin(f, g, softness), blend)
    ELSE lerp(f, smax(f, RNeg(g), softness), RNeg(blend))

\* --------------------------------------------------------------- evaluators

\* A read of a member CsgNode() {} left uninitialised yields what the memory
\* holds; a copy of the node carries the same bytes.
Load(primitive) == IF primitive = Indet THEN fresh ELSE primitive
Uninitialised(primitive) == IF primitive = Indet THEN {"uninitialised"} ELSE {}

\* An evaluation yields the float returned and the faults met on the way:
\* "assert" (assert(0), aborts unless NDEBUG), "uninitialised" (a read of a
\* member never written), "out_of_range" (an index outside its vector) and
\* "unwritten" (a values[] slot read before the loop wrote it).
Result(value, faults) == [value |-> value, faults |-> faults]

\* float eval_primitive(const vec3f& position, primitive_type primitive,
\*                      const float* params)
eval_primitive(position, type, params) ==
  IF type = "sphere"
    THEN LET center == <<params[1], params[2], params[3]>>
             radius == params[4]
             offset == [i \in 1..3 |-> RSub(position[i], center[i])]
         IN  Result(RSub(length(offset), radius), {})
  ELSE IF type = "box" THEN Result(One, {})
  ELSE Result(One, {"assert"})

\* float eval_csg(const CsgTree& csg, const vec3f& position, const CsgNode& node)
RECURSIVE eval_csg_node(_, _, _)
eval_csg_node(tree, position, node) ==
  IF node.children = <<-1, -1>>
    THEN LET primitive == Load(node.primitive)
             r == eval_primitive(position, primitive.type, primitive.params)
         IN  Result(r.value, r.faults \cup Uninitialised(node.primitive))
    ELSE LET f == eval_csg_node(tree, position, At(tree.nodes, node.children[1]))
             g == eval_csg_node(tree, position, At(tree.nodes, node.children[2]))
         IN  Result(eval_operation(f.value, g.value, node.operation.blend,
                                   node.operation.softness),
                    f.faults \cup g.faults)

\* float eval_csg(const CsgTree& csg, const vec3f& position)
\* csg.nodes[csg.root] with root = -1 is outside the vector.
eval_csg(tree, position) ==
  IF tree.root \notin 0..(Len(tree.nodes) - 1)
    THEN Result(Zero, {"out_of_range"})
    ELSE eval_csg_node(tree, position, At(tree.nodes, tree.root))

\* bake_eval_csg_node appending an operation node before its children.
RECURSIVE bake_eval_csg_node_parent_first(_, _, _)
bake_eval_csg_node_parent_first(tree, n, st) ==
  LET node == At(tree.nodes, n)
  IN  IF node.children = <<-1, -1>>
        THEN LET f == [children |-> <<-1, -1>>, primitive |-> node.primitive]
             IN  [st EXCEPT !.mapping[n + 1] = Len(st.result),
                            !.result = Append(st.result, f)]
        ELSE LET slot == Len(st.result)
                 held == [children |-> <<-1, -1>>,
                          operation |-> [blend |-> node.operation.blend,
                                         softness |-> node.operation.softness]]
                 own == [st EXCEPT !.mapping[n + 1] = slot,
                                   !.result = Append(st.result, held)]
                 x == bake_eval_csg_node_parent_first(tree, node.children[1], own)
                 y == bake_eval_csg_node_parent_first(tree, node.children[2], x)
             IN  [y EXCEPT !.result[slot + 1].children =
                             <<y.mapping[node.children[1] + 1],
                               y.mapping[node.children[2] + 1]>>]

\* void bake_eval_csg(const CsgTree& csg, int n, vector<CsgXXX>& result,
\*                    vector<int>& mapping)
\* st holds the two vectors passed by reference and whether the asserts held.
RECURSIVE bake_eval_csg_node(_, _, _)
bake_eval_csg_node(tree, n, st) ==
  LET node == At(tree.nodes, n)
  IN  IF node.children = <<-1, -1>>
        THEN LET f == [children |-> <<-1, -1>>, primitive |-> node.primitive]
             IN  [st EXCEPT !.mapping[n + 1] = Len(st.result),
                            !.result = Append(st.result, f)]
        ELSE LET x == bake_eval_csg_node(tree, node.children[1], st)
                 y == bake_eval_csg_node(tree, node.children[2], x)
                 f == [children |-> <<y.mapping[node.children[1] + 1],
                                      y.mapping[node.children[2] + 1]>>,
                       operation |-> [blend |-> node.operation.blend,
                                      softness |-> node.operation.softness]]
             IN  [y EXCEPT !.mapping[n + 1] = Len(y.result),
                           !.result = Append(y.result, f),
                           !.asserts = /\ y.asserts
                                       /\ y.mapping[node.children[1] + 1] # -1
                                       /\ y.mapping[node.children[2] + 1] # -1]

\* vector<CsgXXX> bake_eval_csg(const CsgTree& csg)
\* csg.nodes[csg.root] with root = -1 is outside the vector.
bake_eval_csg(tree) ==
  IF tree.root \notin 0..(Len(tree.nodes) - 1)
    THEN [result |-> <<>>, mapping |-> <<>>, asserts |-> TRUE, faults |-> {"out_of_range"}]
    ELSE bake_eval_csg_node(tree, tree.root,
           [result |-> <<>>, mapping |-> [i \in 1..Len(tree.nodes) |-> -1],
            asserts |-> TRUE, faults |-> {}])

\* auto values = vector<float>(csg.size());
NewValues(array) == [values |-> [i \in 1..Len(array) |-> Zero], faults |-> {}]

\* values[child] as iteration i of the loop reads it.
ReadValue(st, child, i) ==
  IF child \notin 0..(Len(st.values) - 1) THEN Result(Zero, {"out_of_range"})
  ELSE Result(st.values[child + 1], IF child < i THEN {} ELSE {"unwritten"})

\* eval_csg_iteration reading values[inst.children.x] for both operands.
eval_csg_iteration_reads_x_twice(array, position, i, st) ==
  LET inst == At(array, i)
  IN  IF inst.children = <<-1, -1>>
        THEN LET primitive == Load(inst.primitive)
                 r == eval_primitive(position, primitive.type, primitive.params)
             IN  [values |-> [st.values EXCEPT ![i + 1] = r.value],
                  faults |-> st.faults \cup r.faults \cup Uninitialised(inst.primitive)]
        ELSE LET f == ReadValue(st, inst.children[1], i)
                 g == ReadValue(st, inst.children[1], i)
             IN  [values |-> [st.values EXCEPT ![i + 1] =
                                eval_operation(f.value, g.value, inst.operation.blend,
                                               inst.operation.softness)],
                  faults |-> st.faults \cup f.faults \cup g.faults]

\* One iteration of the loop of the flat eval_csg.
eval_csg_iteration(array, position, i, st) ==
  LET inst == At(array, i)
  IN  IF inst.children = <<-1, -1>>
        THEN LET primitive == Load(inst.primitive)
                 r == eval_primitive(position, primitive.type, primitive.params)
             IN  [values |-> [st.values EXCEPT ![i + 1] = r.value],
                  faults |-> st.faults \cup r.faults \cup Uninitialised(inst.primitive)]
        ELSE LET f == ReadValue(st, inst.children[1], i)
                 g == ReadValue(st, inst.children[2], i)
             IN  [values |-> [st.values EXCEPT ![i + 1] =
                                eval_operation(f.value, g.value, inst.operation.blend,
                                               inst.operation.softness)],
                  faults |-> st.faults \cup f.faults \cup g.faults]

RECURSIVE eval_csg_loop(_, _, _, _)
eval_csg_loop(array, position, i, st) ==
  IF i < Len(array)
    THEN eval_csg_loop(array, position, i + 1, eval_csg_iteration(array, position, i, st))
    ELSE st

\* return values.back(); on an empty vector there is no last element.
values_back(st) ==
  IF st.values = <<>> THEN Result(Zero, st.faults \cup {"out_of_range"})
  ELSE Result(st.values[Len(st.values)], st.faults)

\* float eval_csg(const vector<CsgXXX>& csg, const vec3f& position)
eval_csg_flat(array, position) ==
  values_back(eval_csg_loop(array, position, 0, NewValues(array)))

\* ------------------------------------------ callers of the smooth operators

\* The floats the operators are called with.
Halves == {R(n, 2) : n \in -4..4}
SoftnessValues == {Zero, R(1, 2), One, R(2, 1)}
BlendValues == {R(n, 4) : n \in -4..4}

Origin == <<Zero, Zero, Zero>>
NoEval == [fn |-> "none", point |-> Origin, value |-> Zero, faults |-> {}]

\* What an uninitialised primitive can read as: a type outside the enum's
\* handled values, or a sphere.
FreshPrims ==
  {[type |-> "none", params |-> Params(<<Zero, Zero, Zero, Zero>>)],
   SpherePrimitive(Origin, R(2, 1))}

\* The caller's floats: InitMath draws them, the actions below pass them on.
NoCalc == [fn |-> "none", f |-> Zero, g |-> Zero, blend |-> Zero, softness |-> Zero,
           result |-> Zero]

CallSmin ==
  /\ calc' = [calc EXCEPT !.fn = "smin",
                          !.result = smin(calc.f, calc.g, calc.softness)]
  /\ UNCHANGED <<csg, ndebug, status, last, handles, fresh, flat, out, threads, names, app, pf>>

CallSmax ==
  /\ calc' = [calc EXCEPT !.fn = "smax",
                          !.result = smax(calc.f, calc.g, calc.softness)]
  /\ UNCHANGED <<csg, ndebug, status, last, handles, fresh, flat, out, threads, names, app, pf>>

CallEvalOperation ==
  /\ calc' = [calc EXCEPT !.fn = "eval_operation",
                          !.result = eval_operation(calc.f, calc.g, calc.blend, calc.softness)]
  /\ UNCHANGED <<csg, ndebug, status, last, handles, fresh, flat, out, threads, names, app, pf>>

\* ----------------------------------------------------------------- callers

\* The values a caller may pass as the attach point: any index of the
\* arena; on the empty tree the argument is not read.
AttachPoints(tree) ==
  IF tree.nodes = <<>> THEN {-1, 0} ELSE 0..(Len(tree.nodes) - 1)

\* The number of calls that have grown the arena of a tree.
EditCount(tree) == (Len(tree.nodes) + 1) \div 2

\* The caller keeps each returned index with the primitive it passed, and
\* drops an index once it has used it as a non-root attach point.
Retained(held, tree, parent, ret, prim) ==
  {h \in held : ~(tree.nodes # <<>> /\ parent # tree.root /\ h.index = parent)}
    \cup {[index |-> ret, prim |-> prim]}

\* Call with the baked vector following the tree it was made from.
Call_rebakes(fn, parent, args, prim, r) ==
  /\ last' = [fn |-> fn, parent |-> parent, args |-> args, ret |-> r.ret]
  /\ IF r.aborted
       THEN /\ status' = "aborted"
            /\ UNCHANGED <<csg, handles, flat>>
       ELSE /\ csg' = r.csg
            /\ handles' = Retained(handles, csg, parent, r.ret, prim)
            /\ flat' = IF flat = <<>> THEN flat ELSE bake_eval_csg(r.csg).result
            /\ UNCHANGED status
  /\ out' = NoEval
  /\ UNCHANGED <<ndebug, fresh, calc, threads, names, app, pf>>

\* The effect of a call on the state: the tree, the return value, or the
\* abort.
Call(fn, parent, args, prim, r) ==
  /\ last' = [fn |-> fn, parent |-> parent, args |-> args, ret |-> r.ret]
  /\ IF r.aborted
       THEN /\ status' = "aborted"
            /\ UNCHANGED <<csg, handles>>
       ELSE /\ csg' = r.csg
            /\ handles' = Retained(handles, csg, parent, r.ret, prim)
            /\ UNCHANGED status
  /\ out' = NoEval
  /\ UNCHANGED <<ndebug, fresh, flat, calc, threads, names, app, pf>>

CanCall == status = "running" /\ EditCount(csg) < MaxEdits

AddEdit ==
  /\ CanCall
  /\ \E parent \in AttachPoints(csg), op \in OpValues, prim \in PrimValues :
       Call("add_edit", parent, [op |-> op, prim |-> prim], prim,
            add_edit(csg, parent, op, prim))

AddSphere ==
  /\ CanCall
  /\ \E parent \in AttachPoints(csg), softness \in Softness,
        center \in Centers, radius \in Radii :
       Call("add_sphere", parent,
            [softness |-> softness, center |-> center, radius |-> radius],
            SpherePrimitive(center, radius),
            add_sphere(csg, parent, softness, center, radius))

SubtractSphere ==
  /\ CanCall
  /\ \E parent \in AttachPoints(csg), softness \in Softness,
        center \in Centers, radius \in Radii :
       Call("subtract_sphere", parent,
            [softness |-> softness, center |-> center, radius |-> radius],
            SpherePrimitive(center, radius),
            subtract_sphere(csg, parent, softness, center, radius))

Init ==
  /\ names = NoNames
  /\ app = NoApp
  /\ pf = NoParallelFor
  /\ csg = CsgTree
  /\ ndebug \in BOOLEAN
  /\ status = "running"
  /\ last = [fn |-> "none", parent |-> -1, args |-> <<>>, ret |-> -1]
  /\ handles = {}
  /\ fresh \in FreshPrims
  /\ flat = <<>>
  /\ out = NoEval
  /\ calc = NoCalc
  /\ threads = <<>>

\* The callers of add_edit.
Next == AddEdit

Spec == Init /\ [][Next]_vars

\* The callers of the whole editing API.
NextApi == AddEdit \/ AddSphere \/ SubtractSphere

SpecApi == Init /\ [][NextApi]_vars

\* The callers of the smooth operators.
NextMath == CallSmin \/ CallSmax \/ CallEvalOperation

InitMath ==
  /\ names = NoNames
  /\ app = NoApp
  /\ pf = NoParallelFor
  /\ csg = CsgTree
  /\ ndebug \in BOOLEAN
  /\ status = "running"
  /\ last = [fn |-> "none", parent |-> -1, args |-> <<>>, ret |-> -1]
  /\ handles = {}
  /\ fresh \in FreshPrims
  /\ flat = <<>>
  /\ out = NoEval
  /\ threads = <<>>
  /\ \E f \in Halves, g \in Halves, blend \in BlendValues, softness \in SoftnessValues :
       calc = [NoCalc EXCEPT !.f = f, !.g = g, !.blend = blend, !.softness = softness]

SpecMath == InitMath /\ [][NextMath]_vars

\* -------------------------------------------------- callers of the evaluators

\* The scenes evaluated are made by fewer than MaxSceneEdits + 1 calls of
\* add_edit.
MaxSceneEdits == 3

\* The sample points, each at a rational distance from every centre used.
Points == {Origin, <<R(3, 2), R(2, 1), Zero>>}

\* The primitives and operations of the scenes evaluated.
UnitSphere == SpherePrimitive(Origin, One)
ShiftedSphere == SpherePrimitive(<<R(3, 2), Zero, Zero>>, One)
Box == BoxPrimitive(<<One, One, One>>)
ScenePrims == {UnitSphere, ShiftedSphere}
BoxScenePrims == {UnitSphere, Box}
HardUnion == [blend |-> One, softness |-> Zero]
HalfSubtraction == [blend |-> R(-1, 2), softness |-> Zero]
SceneOps == {HardUnion, HalfSubtraction}

\* What an access outside a vector can leave in the returned float.
StrayValues == {Zero, One}

EditWith(prims) ==
  /\ status = "running"
  /\ EditCount(csg) < MaxSceneEdits
  /\ \E parent \in AttachPoints(csg), op \in SceneOps, prim \in prims :
       Call("add_edit", parent, [op |-> op, prim |-> prim], prim,
            add_edit(csg, parent, op, prim))

EditScene == EditWith(ScenePrims)

EditBoxScene == EditWith(BoxScenePrims)

\* The caller of bake_eval_csg keeps the vector returned.  An access outside
\* csg.nodes crashes or reads a stray node; a failing assert aborts.
BakeEvalCsg ==
  /\ status = "running"
  /\ LET b == bake_eval_csg(csg)
     IN  IF "out_of_range" \in b.faults
           THEN \/ status' = "crashed" /\ UNCHANGED flat
                \/ /\ flat' = <<[children |-> <<-1, -1>>, primitive |-> Indet]>>
                   /\ UNCHANGED status
         ELSE IF ~b.asserts /\ ~ndebug
           THEN status' = "aborted" /\ UNCHANGED flat
         ELSE flat' = b.result /\ UNCHANGED status
  /\ out' = NoEval
  /\ UNCHANGED <<csg, ndebug, last, handles, fresh, calc, threads, names, app, pf>>

\* The caller of an evaluator receives r.value, unless the evaluation
\* crashed on an access outside a vector or aborted on assert(0); out keeps
\* the call and its faults in either case.
Return(fn, position, r) ==
  /\ IF "out_of_range" \in r.faults
       THEN \/ /\ status' = "crashed"
               /\ out' = [fn |-> fn, point |-> position, value |-> Zero,
                          faults |-> r.faults]
            \/ /\ \E stray \in StrayValues :
                    out' = [fn |-> fn, point |-> position, value |-> stray,
                            faults |-> r.faults]
               /\ UNCHANGED status
       ELSE /\ out' = [fn |-> fn, point |-> position, value |-> r.value,
                       faults |-> r.faults]
            /\ status' = IF "assert" \in r.faults /\ ~ndebug THEN "aborted" ELSE status
  /\ UNCHANGED <<csg, ndebug, last, handles, fresh, flat, calc, threads, names, app, pf>>

EvalCsg ==
  /\ status = "running"
  /\ \E position \in Points : Return("eval_csg", position, eval_csg(csg, position))

EvalCsgFlat ==
  /\ status = "running"
  /\ \E position \in Points :
       Return("eval_csg_flat", position, eval_csg_flat(flat, position))

NextEval == EditScene \/ BakeEvalCsg \/ EvalCsg \/ EvalCsgFlat

SpecEval == Init /\ [][NextEval]_vars

\* The same callers, on scenes with boxes.
NextBox == EditBoxScene \/ BakeEvalCsg \/ EvalCsg \/ EvalCsgFlat

SpecBox == Init /\ [][NextBox]_vars

\* The editing API followed by bakes, on the trees of Spec.
NextBake == AddEdit \/ BakeEvalCsg

SpecBake == Init /\ [][NextBake]_vars

\* ------------------------------------------------------- concurrent evaluators

\* The threads that evaluate one tree and its baked array at the same time.
Threads == {1, 2}

\* A scratch vector shared by every call, in place of a local one.
BufferOf_static(t) == 1

\* auto values = vector<float>(csg.size()): a local of each call, so every
\* call in progress has a vector of its own.
BufferOf(t) == t

\* The trees the threads evaluate: two attaches at the root, and an attach
\* at the root followed by one at a leaf.
Leaf0 == add_edit_empty(CsgTree, -1, HardUnion, UnitSphere).csg
ThreadScenes ==
  {add_edit_root(add_edit_root(Leaf0, 0, HalfSubtraction, ShiftedSphere).csg,
                 1, HardUnion, ShiftedSphere).csg,
   add_edit_leaf(add_edit_root(Leaf0, 0, HardUnion, ShiftedSphere).csg,
                 2, HalfSubtraction, UnitSphere).csg}

Idle == [pc |-> "idle", fn |-> "none", point |-> Origin, i |-> 0, ret |-> Result(Zero, {})]

InitThreads ==
  /\ names = NoNames
  /\ app = NoApp
  /\ pf = NoParallelFor
  /\ csg \in ThreadScenes
  /\ ndebug \in BOOLEAN
  /\ status = "running"
  /\ last = [fn |-> "none", parent |-> -1, args |-> <<>>, ret |-> -1]
  /\ handles = {}
  /\ fresh \in FreshPrims
  /\ flat = bake_eval_csg(csg).result
  /\ out = NoEval
  /\ calc = NoCalc
  /\ threads = [calls |-> [t \in Threads |-> Idle],
                buffers |-> [b \in Threads |-> NewValues(<<>>)]]

\* assert(0) in a thread aborts the process unless NDEBUG.
Survives(faults) == IF "assert" \in faults /\ ~ndebug THEN "aborted" ELSE "running"

\* A thread calls the recursive eval_csg: it reads the tree and writes only
\* its own stack.
EvalRecursive(t) ==
  /\ status = "running"
  /\ threads.calls[t].pc = "idle"
  /\ \E position \in Points :
       LET r == eval_csg(csg, position)
       IN  /\ threads' = [threads EXCEPT !.calls[t] =
                            [pc |-> "done", fn |-> "eval_csg", point |-> position,
                             i |-> 0, ret |-> r]]
           /\ status' = Survives(r.faults)
  /\ UNCHANGED <<csg, ndebug, last, handles, fresh, flat, out, calc, names, app, pf>>

\* A thread calls the flat eval_csg and allocates values.
StartEval(t) ==
  /\ status = "running"
  /\ threads.calls[t].pc = "idle"
  /\ \E position \in Points :
       threads' = [threads EXCEPT
                     !.calls[t] = [Idle EXCEPT !.pc = "loop", !.fn = "eval_csg_flat",
                                               !.point = position],
                     !.buffers[BufferOf(t)] = NewValues(flat)]
  /\ UNCHANGED <<csg, ndebug, status, last, handles, fresh, flat, out, calc, names, app, pf>>

\* One iteration of the thread's loop.
Iterate(t) ==
  LET call == threads.calls[t]
      st == eval_csg_iteration(flat, call.point, call.i, threads.buffers[BufferOf(t)])
  IN  /\ status = "running"
      /\ call.pc = "loop"
      /\ call.i < Len(flat)
      /\ threads' = [threads EXCEPT !.calls[t].i = call.i + 1,
                                    !.buffers[BufferOf(t)] = st]
      /\ status' = Survives(st.faults)
      /\ UNCHANGED <<csg, ndebug, last, handles, fresh, flat, out, calc, names, app, pf>>

\* return values.back();
ReturnEval(t) ==
  LET call == threads.calls[t]
  IN  /\ status = "running"
      /\ call.pc = "loop"
      /\ call.i = Len(flat)
      /\ threads' = [threads EXCEPT
                       !.calls[t].pc = "done",
                       !.calls[t].ret = values_back(threads.buffers[BufferOf(t)])]
      /\ UNCHANGED <<csg, ndebug, status, last, handles, fresh, flat, out, calc, names, app, pf>>

NextThreads ==
  \E t \in Threads : EvalRecursive(t) \/ StartEval(t) \/ Iterate(t) \/ ReturnEval(t)

SpecThreads == InitThreads /\ [][NextThreads]_vars

\* --------------------------------------------------------------- parse_csg

\* Statements are read while the arena holds fewer than MaxParsedNodes nodes
\* (every statement that parses appends at least one node).
MaxParsedNodes == 4

\* The names a script declares and uses.
ScriptNames == {"a", "b"}

\* The primitive literals a script writes: the primitive's name and its four
\* numbers.
Literals == {[name |-> "sphere", values |-> <<0, 0, 0, 1>>],
             [name |-> "cube", values |-> <<1, 1, 1, 1>>]}

\* The optional numbers between the operator and rhs: none, or blend and
\* softness.
Numbers == {<<>>, <<2, 1>>}

\* The lines of a script: lhs, the operator, the optional numbers, rhs (a
\* name or the name of a primitive) and the numbers after it.
Statements ==
  [lhs : ScriptNames, op : {"=", "+=", "-="}, numbers : Numbers,
   rhs : ScriptNames, values : {<<>>}]
  \cup
  {[lhs |-> lhs, op |-> op, numbers |-> numbers, rhs |-> l.name, values |-> l.values] :
     lhs \in ScriptNames, op \in {"=", "+=", "-="}, numbers \in Numbers, l \in Literals}

\* auto primitive = CsgPrimitve{}: value-initialised, so zeros and the first
\* enumerator.
ZeroPrimitive == [type |-> "sphere", params |-> Params(<<>>)]

\* parse_primitive: the type from the name, then four params read by
\* strtod.  An unknown name fails assert(0) and leaves the type as it was; a
\* missing number fails assert(0 && "double expected") and reads as 0.
parse_primitive(primitive, name, values) ==
  [primitive |->
     [type |-> IF name = "sphere" THEN "sphere"
               ELSE IF name = "cube" THEN "box"
               ELSE primitive.type,
      params |-> [i \in 1..ParamCount |->
                    IF i > 4 THEN primitive.params[i]
                    ELSE IF i <= Len(values) THEN values[i]
                    ELSE 0]],
   asserts |-> name \in {"sphere", "cube"} /\ Len(values) >= 4]

\* add_primitive(csg, primitive): a new leaf holding the primitive.
add_primitive(tree, primitive) ==
  [tree EXCEPT !.nodes = Append(@, [CsgNode EXCEPT !.primitive = primitive])]

\* names[lhs] = csg.nodes.size()
Bind(nm, name, index) ==
  [n \in (DOMAIN nm) \cup {name} |-> IF n = name THEN index ELSE nm[n]]

\* The else branch of "if (assignment)": the parent's node is copied to the
\* end of the arena, and the parent becomes the operation over that copy and
\* the child (the node rhs names, or a new leaf).
parse_combine(tree, parent, operation, child, primitive) ==
  LET size == Len(tree.nodes)
      backup == At(tree.nodes, parent)
      kept == Append(Put(tree.nodes, parent, "operation", operation), backup)
  IN  IF child # -1
        THEN [tree EXCEPT !.nodes = Put(kept, parent, "children", <<size, child>>)]
        ELSE add_primitive(
               [tree EXCEPT !.nodes = Put(kept, parent, "children", <<size, size + 1>>)],
               primitive)

\* One iteration of parse_csg's loop on a non-empty line.  names.at(lhs)
\* throws std::out_of_range when a combining statement names an undeclared
\* lhs; asserts tells whether the asserts of parse_primitive hold.
parse_statement(tree, nm, st) ==
  LET assignment == st.op = "="
      sub == st.op = "-="
      size == Len(tree.nodes)
      names1 == IF assignment THEN Bind(nm, st.lhs, size) ELSE nm
      blend == IF Len(st.numbers) >= 1 THEN st.numbers[1] ELSE 1
      softness == IF Len(st.numbers) >= 2 THEN st.numbers[2] ELSE 0
      operation == [blend |-> IF sub THEN -blend ELSE blend, softness |-> softness]
      found == st.rhs \in DOMAIN names1
      child == IF found THEN names1[st.rhs] ELSE -1
      parsed == IF found THEN [primitive |-> ZeroPrimitive, asserts |-> TRUE]
                ELSE parse_primitive(ZeroPrimitive, st.rhs, st.values)
      primitive == parsed.primitive
  IN  IF ~assignment /\ st.lhs \notin DOMAIN nm
        THEN [csg |-> tree, names |-> nm, thrown |-> TRUE, asserts |-> TRUE]
      ELSE IF assignment
        THEN [csg |-> add_primitive([tree EXCEPT !.root = IF size = 0 THEN 0 ELSE @],
                                    primitive),
              names |-> Bind(names1, st.lhs, size),
              thrown |-> FALSE,
              asserts |-> parsed.asserts]
      ELSE [csg |-> parse_combine(tree, nm[st.lhs], operation, child, primitive),
            names |-> names1,
            thrown |-> FALSE,
            asserts |-> parsed.asserts]

\* parse_csg reads the next line of the script.
ParseStatement ==
  /\ status = "running"
  /\ Len(csg.nodes) < MaxParsedNodes
  /\ \E st \in Statements :
       LET r == parse_statement(csg, names, st)
       IN  /\ last' = [fn |-> "parse_csg", parent |-> -1,
                       args |-> <<st.lhs, st.op, st.rhs>>, ret |-> -1]
           /\ IF r.thrown
                THEN status' = "crashed" /\ UNCHANGED <<csg, names>>
                ELSE IF ~r.asserts /\ ~ndebug
                THEN status' = "aborted" /\ UNCHANGED <<csg, names>>
                ELSE csg' = r.csg /\ names' = r.names /\ UNCHANGED status
  /\ UNCHANGED <<ndebug, handles, fresh, flat, out, calc, threads, app, pf>>

NextParse == ParseStatement

SpecParse == Init /\ [][NextParse]_vars

\* ------------------------------------------------------------ parallel_for

\* thread::hardware_concurrency(): the number of hardware threads, or 0 when
\* the implementation cannot tell.
HardwareConcurrency == 0..2

\* The image sizes parallel_for is called with: size.x columns, size.y rows.
Sizes == {<<x, y>> : x \in 0..2, y \in 0..2}

\* func({i, j}) for 0 <= i < size.x and 0 <= j < size.y.
Pixels(size) == {<<i, j>> : i \in 0..(size[1] - 1), j \in 0..(size[2] - 1)}

\* How many times func has been called with a pixel.
Count(calls, pixel) == IF pixel \in DOMAIN calls THEN calls[pixel] ELSE 0

Called(calls, pixel) ==
  [p \in (DOMAIN calls) \cup {pixel} |-> IF p = pixel THEN Count(calls, p) + 1 ELSE calls[p]]

\* parallel_for(size, func) after its first loop: next_idx(0) and nthreads
\* workers launched, each at the top of its while (true).
parallel_for(hardware_concurrency, size, func) ==
  [pc |-> "running", hardware_concurrency |-> hardware_concurrency, func |-> func,
   size |-> size, next_idx |-> 0,
   workers |-> [t \in 1..hardware_concurrency |-> [pc |-> "fetch", i |-> 0, j |-> 0]],
   calls |-> NoCalls]

\* auto j = next_idx.fetch_add(1); if (j >= size.y) break; then the row's
\* for loop begins (and ends at once when size.x is 0).
fetch_add(p, t) ==
  LET j == p.next_idx
  IN  [p EXCEPT !.next_idx = j + 1,
                !.workers[t] = IF j >= p.size[2] THEN [pc |-> "done", i |-> 0, j |-> j]
                               ELSE IF 0 < p.size[1] THEN [pc |-> "row", i |-> 0, j |-> j]
                               ELSE [pc |-> "fetch", i |-> 0, j |-> j]]

\* func({i, j}); i++: the next column, or back to the top of while (true).
call_func(p, t) ==
  LET w == p.workers[t]
  IN  [p EXCEPT !.calls = Called(@, <<w.i, w.j>>),
                !.workers[t] = IF w.i + 1 < p.size[1] THEN [w EXCEPT !.i = @ + 1]
                               ELSE [w EXCEPT !.pc = "fetch", !.i = 0]]

\* for (auto& f : futures) f.get() has returned from every worker.
Joined(p) == \A t \in DOMAIN p.workers : p.workers[t].pc = "done"

\* A caller calls parallel_for(size, func).
ParallelFor ==
  /\ status = "running"
  /\ app = NoApp
  /\ pf.pc = "idle"
  /\ \E size \in Sizes : pf' = parallel_for(pf.hardware_concurrency, size, "func")
  /\ UNCHANGED <<csg, ndebug, status, last, handles, fresh, flat, out, calc, threads,
                 names, app>>

\* A worker takes the next row.
Fetch(t) ==
  /\ status = "running"
  /\ pf.pc = "running"
  /\ t \in DOMAIN pf.workers
  /\ pf.workers[t].pc = "fetch"
  /\ pf' = fetch_add(pf, t)
  /\ UNCHANGED <<csg, ndebug, status, last, handles, fresh, flat, out, calc, threads,
                 names, app>>

\* A worker calls the caller's func on the next pixel of its row.
CallFunc(t) ==
  /\ status = "running"
  /\ pf.pc = "running"
  /\ pf.func = "func"
  /\ t \in DOMAIN pf.workers
  /\ pf.workers[t].pc = "row"
  /\ pf' = call_func(pf, t)
  /\ UNCHANGED <<csg, ndebug, status, last, handles, fresh, flat, out, calc, threads,
                 names, app>>

\* parallel_for returns to its caller.
ReturnParallelFor ==
  /\ status = "running"
  /\ pf.pc = "running"
  /\ pf.func = "func"
  /\ Joined(pf)
  /\ pf' = [pf EXCEPT !.pc = "returned"]
  /\ UNCHANGED <<csg, ndebug, status, last, handles, fresh, flat, out, calc, threads,
                 names, app>>

WorkerIds == 1..2

NextParallel ==
  \/ ParallelFor
  \/ \E t \in WorkerIds : Fetch(t)
  \/ \E t \in WorkerIds : CallFunc(t)
  \/ ReturnParallelFor

InitParallel ==
  /\ csg = CsgTree
  /\ ndebug \in BOOLEAN
  /\ status = "running"
  /\ last = [fn |-> "none", parent |-> -1, args |-> <<>>, ret |-> -1]
  /\ handles = {}
  /\ fresh \in FreshPrims
  /\ flat = <<>>
  /\ out = NoEval
  /\ calc = NoCalc
  /\ threads = <<>>
  /\ names = NoNames
  /\ app = NoApp
  /\ \E n \in HardwareConcurrency : pf = [NoParallelFor EXCEPT !.hardware_concurrency = n]

SpecParallel == InitParallel /\ [][NextParallel]_vars

\* The threads the operating system runs get to run.
SpecParallelFair ==
  /\ SpecParallel
  /\ \A t \in WorkerIds : WF_vars(Fetch(t)) /\ WF_vars(CallFunc(t))
  /\ WF_vars(ReturnParallelFor)

\* ------------------------------------------------------- the host (main.cpp)

\* The render task makes at most MaxSamples passes (params.samples).
MaxSamples == 2

\* At most MaxCommands commands are enqueued in one run of the application.
MaxCommands == 2

\* app->render.size(): one column, two rows.
RenderSize == <<1, 2>>

\* The value a dragged slider writes.
SliderValues == {-1}

\* The scripts the scene file can hold when it is loaded: empty, one
\* primitive, two primitives combined.
Scripts ==
  {<<>>,
   <<[lhs |-> "a", op |-> "=", numbers |-> <<>>, rhs |-> "sphere", values |-> <<0, 0, 0, 1>>]>>,
   <<[lhs |-> "a", op |-> "=", numbers |-> <<>>, rhs |-> "sphere", values |-> <<0, 0, 0, 1>>],
     [lhs |-> "a", op |-> "+=", numbers |-> <<>>, rhs |-> "cube", values |-> <<1, 1, 1, 1>>]>>}

\* parse_csg: the statements of the script in order.
RECURSIVE parse_csg_lines(_, _, _)
parse_csg_lines(tree, nm, script) ==
  IF script = <<>> THEN tree
  ELSE LET r == parse_statement(tree, nm, Head(script))
       IN  parse_csg_lines(r.csg, r.names, Tail(script))

parse_csg(script) == parse_csg_lines(CsgTree, NoNames, script)

\* load_csg(filename): the tree of the script in the file.
load_csg(script) == parse_csg(script)

LoadableTrees == {load_csg(script) : script \in Scripts}

\* No render task yet.
NoTask == [pc |-> "none", sample |-> 0, observed |-> FALSE]

\* make_shared<app_state>(): the members' initialisers.
app_state ==
  [ui |-> "main", handler |-> "main", selected |-> 0,
   render_stop |-> FALSE, render_future |-> "invalid", task |-> NoTask,
   commands |-> <<>>, enqueued |-> 0, executed |-> <<>>]

\* The render task is evaluating, or about to evaluate, the tree.
Rendering(a) == a.task.pc \in {"check", "pass"}

\* void run(function<void()>&& f) { commands.push_back(f); }
run(a, f) ==
  [a EXCEPT !.commands = Append(@, [id |-> a.enqueued + 1, f |-> f]),
            !.enqueued = @ + 1]

\* reset_display up to its wait: app->render_stop = true, then
\* render_future.get() if the future is valid.
reset_display_stop(a, handler) ==
  [a EXCEPT !.render_stop = TRUE, !.ui = "join", !.handler = handler]

\* for (auto& f : app->commands) f(); run from the back of the vector.
run_commands_backwards(a, tree, loaded) ==
  [app |-> [a EXCEPT !.executed = @ \o [k \in 1..Len(a.commands) |->
                                          a.commands[Len(a.commands) + 1 - k].id],
                     !.commands = <<>>, !.ui = "start"],
   csg |-> IF \E k \in 1..Len(a.commands) : a.commands[k].f = "load_csg"
             THEN loaded ELSE tree]

\* for (auto& f : app->commands) f(); app->commands.clear();  A load_csg
\* command replaces the tree (by what the file holds when it runs, loaded);
\* a deferred slider value is stored outside the tree.
run_commands(a, tree, loaded) ==
  [app |-> [a EXCEPT !.executed = @ \o [k \in 1..Len(a.commands) |-> a.commands[k].id],
                     !.commands = <<>>, !.ui = "start"],
   csg |-> IF \E k \in 1..Len(a.commands) : a.commands[k].f = "load_csg"
             THEN loaded ELSE tree]

\* The sample loop that does not look at render_stop at the top of a pass.
render_check_ignores_stop(a, p) ==
  IF a.task.sample >= MaxSamples
    THEN [app |-> [a EXCEPT !.task.pc = "done"], pf |-> p]
  ELSE [app |-> [a EXCEPT !.task.pc = "pass"],
        pf |-> parallel_for(p.hardware_concurrency, RenderSize, "render")]

\* The render task at the top of its loop: for (sample < samples) { if
\* (app->render_stop) return; parallel_for(...) }.
render_check(a, p) ==
  IF a.task.sample >= MaxSamples
    THEN [app |-> [a EXCEPT !.task.pc = "done"], pf |-> p]
  ELSE IF a.render_stop
    THEN [app |-> [a EXCEPT !.task.pc = "done", !.task.observed = TRUE], pf |-> p]
  ELSE [app |-> [a EXCEPT !.task.pc = "pass"],
        pf |-> parallel_for(p.hardware_concurrency, RenderSize, "render")]

\* The slider of the selected node that the user drags: "x" of a leaf
\* (params[0]) or "blend" of an operation, written through the reference.
draw_glslider(tree, selected, value) ==
  LET node == At(tree.nodes, selected)
  IN  IF IsLeaf(node)
        THEN [tree EXCEPT !.nodes =
                Put(@, selected, "primitive",
                    [node.primitive EXCEPT !.params = [@ EXCEPT ![1] = value]])]
        ELSE [tree EXCEPT !.nodes =
                Put(@, selected, "operation", [node.operation EXCEPT !.blend = value])]

\* run_app: the first reset_display, before the window exists.
RunApp ==
  /\ status = "running"
  /\ app # NoApp
  /\ app.ui = "main"
  /\ app' = reset_display_stop(app, "run_app")
  /\ UNCHANGED <<csg, ndebug, status, last, handles, fresh, flat, out, calc, threads,
                 names, pf>>

\* keycb, left: selected = max(selected - 1, 0).
KeyLeft ==
  /\ status = "running"
  /\ app # NoApp
  /\ app.ui = "idle"
  /\ app' = [app EXCEPT !.selected = IF @ - 1 > 0 THEN @ - 1 ELSE 0]
  /\ UNCHANGED <<csg, ndebug, status, last, handles, fresh, flat, out, calc, threads,
                 names, pf>>

\* keycb, right: selected = min(selected + 1, csg.nodes.size() - 1).  With
\* no nodes size() - 1 wraps to the largest size_t, which min(int, int)
\* receives as -1.
KeyRight ==
  /\ status = "running"
  /\ app # NoApp
  /\ app.ui = "idle"
  /\ app' = [app EXCEPT !.selected =
               IF @ + 1 < Len(csg.nodes) - 1 THEN @ + 1 ELSE Len(csg.nodes) - 1]
  /\ UNCHANGED <<csg, ndebug, status, last, handles, fresh, flat, out, calc, threads,
                 names, pf>>

\* keycb, enter: app->run(load_csg), then reset_display.
KeyEnter ==
  /\ status = "running"
  /\ app # NoApp
  /\ app.ui = "idle"
  /\ app.enqueued < MaxCommands
  /\ app' = reset_display_stop(run(app, "load_csg"), "keycb")
  /\ UNCHANGED <<csg, ndebug, status, last, handles, fresh, flat, out, calc, threads,
                 names, pf>>

\* A callback enqueues a command and returns (deferred_slider's push_back).
Run ==
  /\ status = "running"
  /\ app # NoApp
  /\ app.ui = "idle"
  /\ app.enqueued < MaxCommands
  /\ app' = run(app, "set_value")
  /\ UNCHANGED <<csg, ndebug, status, last, handles, fresh, flat, out, calc, threads,
                 names, pf>>

\* The uiupdate callback with a mouse button down: the camera moves, then
\* reset_display.
UpdateCamera ==
  /\ status = "running"
  /\ app # NoApp
  /\ app.ui = "idle"
  /\ app' = reset_display_stop(app, "uiupdate")
  /\ UNCHANGED <<csg, ndebug, status, last, handles, fresh, flat, out, calc, threads,
                 names, pf>>

\* draw_glwidgets: auto& node = app->csg.nodes[app->selected], the sliders
\* of that node, and reset_display if one was dragged.  With selected outside
\* the vector the reference is out of bounds: the process crashes or the
\* sliders show whatever is read.
DrawWidgets ==
  /\ status = "running"
  /\ app # NoApp
  /\ app.ui = "idle"
  /\ \E edit \in 0..1 :
       IF app.selected \notin 0..(Len(csg.nodes) - 1)
         THEN /\ edit = 0
              /\ status' \in {"running", "crashed"}
              /\ UNCHANGED <<csg, app>>
       ELSE IF edit = 0
         THEN UNCHANGED <<csg, app, status>>
       ELSE /\ \E value \in SliderValues : csg' = draw_glslider(csg, app.selected, value)
            /\ app' = reset_display_stop(app, "draw_glwidgets")
            /\ UNCHANGED status
  /\ UNCHANGED <<ndebug, last, handles, fresh, flat, out, calc, threads, names, pf>>

\* ~app_state: render_stop = true, then render_future.get() if valid.
Destroy ==
  /\ status = "running"
  /\ app # NoApp
  /\ app.ui = "idle"
  /\ app' = reset_display_stop(app, "~app_state")
  /\ UNCHANGED <<csg, ndebug, status, last, handles, fresh, flat, out, calc, threads,
                 names, pf>>

\* render_future.get() returns: there was no task, or the task has ended.
Join ==
  /\ status = "running"
  /\ app # NoApp
  /\ app.ui = "join"
  /\ app.render_future = "invalid" \/ app.task.pc = "done"
  /\ app' = [app EXCEPT !.render_future = "invalid",
                        !.ui = IF app.handler = "~app_state" THEN "exited" ELSE "commands"]
  /\ UNCHANGED <<csg, ndebug, status, last, handles, fresh, flat, out, calc, threads,
                 names, pf>>

\* reset_display runs the enqueued commands and clears the queue.
RunCommands ==
  /\ status = "running"
  /\ app # NoApp
  /\ app.ui = "commands"
  /\ \E loaded \in LoadableTrees :
       LET r == run_commands(app, csg, loaded)
       IN  app' = r.app /\ csg' = r.csg
  /\ UNCHANGED <<ndebug, status, last, handles, fresh, flat, out, calc, threads,
                 names, pf>>

\* reset_display renders the preview (a raymarch_image that has returned
\* before the next line) and starts the render task.  Evaluating a tree with
\* root -1 reads csg.nodes[-1]: the process crashes or goes on.
StartRender ==
  /\ status = "running"
  /\ app # NoApp
  /\ app.ui = "start"
  /\ \/ /\ app' = [app EXCEPT !.render_stop = FALSE, !.render_future = "valid",
                              !.task = [pc |-> "check", sample |-> 0, observed |-> FALSE],
                              !.ui = "idle", !.handler = "none"]
        /\ UNCHANGED status
     \/ /\ csg.root = -1
        /\ status' = "crashed"
        /\ UNCHANGED app
  /\ UNCHANGED <<csg, ndebug, last, handles, fresh, flat, out, calc, threads, names, pf>>

\* The render task at the top of its sample loop.
RenderCheck ==
  /\ status = "running"
  /\ app # NoApp
  /\ app.task.pc = "check"
  /\ LET r == render_check(app, pf)
     IN  app' = r.app /\ pf' = r.pf
  /\ UNCHANGED <<csg, ndebug, status, last, handles, fresh, flat, out, calc, threads,
                 names>>

\* A worker of the render task's parallel_for calls the pixel lambda:
\* if (app->render_stop) return; then one raymarch_sample of app->csg.
RenderPixel(t) ==
  /\ status = "running"
  /\ app # NoApp
  /\ pf.pc = "running"
  /\ pf.func = "render"
  /\ t \in DOMAIN pf.workers
  /\ pf.workers[t].pc = "row"
  /\ pf' = call_func(pf, t)
  /\ app' = [app EXCEPT !.task.observed = @ \/ app.render_stop]
  /\ UNCHANGED <<csg, ndebug, status, last, handles, fresh, flat, out, calc, threads,
                 names>>

\* The render task's parallel_for returns: sample++.
RenderPass ==
  /\ status = "running"
  /\ app # NoApp
  /\ app.task.pc = "pass"
  /\ pf.pc = "running"
  /\ pf.func = "render"
  /\ Joined(pf)
  /\ pf' = [NoParallelFor EXCEPT !.hardware_concurrency = pf.hardware_concurrency]
  /\ app' = [app EXCEPT !.task.pc = "check", !.task.sample = @ + 1]
  /\ UNCHANGED <<csg, ndebug, status, last, handles, fresh, flat, out, calc, threads,
                 names>>

\* The UI thread, which runs one callback at a time.
NextUi ==
  \/ RunApp
  \/ KeyLeft
  \/ KeyRight
  \/ KeyEnter
  \/ Run
  \/ UpdateCamera
  \/ DrawWidgets
  \/ Destroy
  \/ Join
  \/ RunCommands
  \/ StartRender

\* The render task and the workers of its parallel_for.
NextRender ==
  \/ RenderCheck
  \/ \E t \in WorkerIds : Fetch(t)
  \/ \E t \in WorkerIds : RenderPixel(t)
  \/ RenderPass

NextHost == NextUi \/ NextRender

\* main: app->csg = load_csg(filename), before run_app.  No assert is reached
\* from here on (the scripts parse), so one build stands for both.
InitHost ==
  /\ csg \in LoadableTrees
  /\ ndebug = FALSE
  /\ status = "running"
  /\ last = [fn |-> "none", parent |-> -1, args |-> <<>>, ret |-> -1]
  /\ handles = {}
  /\ fresh = [type |-> "none", params |-> Params(<<Zero, Zero, Zero, Zero>>)]
  /\ flat = <<>>
  /\ out = NoEval
  /\ calc = NoCalc
  /\ threads = <<>>
  /\ names = NoNames
  /\ app = app_state
  /\ \E n \in HardwareConcurrency : pf = [NoParallelFor EXCEPT !.hardware_concurrency = n]

SpecHost == InitHost /\ [][NextHost]_vars

\* The threads the operating system runs get to run: the render task, its
\* workers, and the UI thread while it is inside reset_display.
SpecHostFair ==
  /\ SpecHost
  /\ WF_vars(RenderCheck)
  /\ WF_vars(RenderPass)
  /\ \A t \in WorkerIds : WF_vars(Fetch(t)) /\ WF_vars(RenderPixel(t))
  /\ WF_vars(Join)

\* ------------------------------------------------------- tree predicates

Indices(tree) == 0..(Len(tree.nodes) - 1)

\* The child indices stored at index i (none for an index outside the arena).
Kids(tree, i) ==
  IF i \in Indices(tree)
    THEN {At(tree.nodes, i).children[k] : k \in 1..2} \ {-1}
    ELSE {}

RECURSIVE Closure(_, _)
Closure(tree, S) ==
  LET more == S \cup UNION {Kids(tree, i) : i \in S}
  IN  IF more = S THEN S ELSE Closure(tree, more)

\* The indices met when following children from root, root included.
Reachable(tree) == IF tree.root = -1 THEN {} ELSE Closure(tree, {tree.root})

\* The indices met below i.
Descendants(tree, i) == Closure(tree, Kids(tree, i))

\* The child slots (node, 1 or 2) of reachable nodes that hold a child.
Slots(tree) ==
  {s \in (Reachable(tree) \cap Indices(tree)) \X {1, 2} :
     At(tree.nodes, s[1]).children[s[2]] # -1}

WellFormed(tree) ==
  /\ (tree.root = -1) <=> (tree.nodes = <<>>)
  /\ tree.nodes # <<>> => tree.root \in Indices(tree)
  /\ Reachable(tree) \subseteq Indices(tree)
  /\ \A s, t \in Slots(tree) :
       s # t => At(tree.nodes, s[1]).children[s[2]] # At(tree.nodes, t[1]).children[t[2]]
  /\ \A i \in Reachable(tree) \cap Indices(tree) : i \notin Descendants(tree, i)

\* ------------------------------------------------------------------ claims

\* C1: after any sequence of add_edit calls from the empty tree the tree is
\* well-formed: root is -1 iff nodes is empty and otherwise a valid index,
\* every index reachable from root is inside the arena, no node is the child
\* of two nodes or twice of one node, and no node is its own descendant.
C1_TreeWellFormed == WellFormed(csg)

\* A tree grown by four calls, all of its nodes reachable, with an operation
\* node below the root.
C1_Witness ==
  /\ Len(csg.nodes) = 7
  /\ Reachable(csg) = Indices(csg)
  /\ \E i \in Indices(csg) : i # csg.root /\ ~IsLeaf(At(csg.nodes, i))

\* C2: every node of the arena has children (-1,-1) or two children >= 0;
\* no node has exactly one child equal to -1.
C2_ChildrenBothOrNone ==
  \A i \in Indices(csg) :
    LET c == At(csg.nodes, i).children
    IN  c = <<-1, -1>> \/ (c[1] >= 0 /\ c[2] >= 0)

\* A leaf that add_edit has turned into an operation node.
C2_Witness ==
  /\ last.fn = "add_edit"
  /\ last.parent \in Indices(csg) /\ last.parent # csg.root
  /\ At(csg.nodes, last.parent).children = <<Len(csg.nodes) - 2, Len(csg.nodes) - 1>>

\* C3: add_edit on the empty tree, for any attach_at, operation and
\* primitive, yields exactly one node, which holds the primitive, has
\* children (-1,-1) and is the root; the call returns its index, and the
\* tree is the same whatever operation is passed.
C3_EmptyTreeInsert ==
  [][(csg.nodes = <<>> /\ last'.fn = "add_edit") =>
       /\ Len(csg'.nodes) = 1
       /\ At(csg'.nodes, 0).primitive = last'.args.prim
       /\ At(csg'.nodes, 0).children = <<-1, -1>>
       /\ csg'.root = 0
       /\ last'.ret = 0
       /\ \A o \in OpValues :
            add_edit(csg, last'.parent, o, last'.args.prim).csg = csg']_vars

\* The first add_edit has returned, called with attach_at = -1 and a
\* subtracting operation.
C3_Witness ==
  /\ Len(csg.nodes) = 1
  /\ last.fn = "add_edit" /\ last.parent = -1 /\ last.ret = 0
  /\ last.args.op.blend = -1

\* C4: add_edit on a non-empty tree with attach_at = root appends exactly
\* two nodes, a new root carrying the operation with children (old root, new
\* leaf) and a new leaf carrying the primitive; root becomes the new root's
\* index, the old root's parent becomes that index, the old root's children
\* and payload are unchanged, and the call returns the new leaf's index, the
\* later of the two appended indices.
C4_AttachAtRoot ==
  [][(csg.nodes # <<>> /\ last'.fn = "add_edit" /\ last'.parent = csg.root) =>
       LET index == Len(csg.nodes)
           old == At(csg.nodes, csg.root)
           kept == At(csg'.nodes, csg.root)
       IN  /\ Len(csg'.nodes) = index + 2
           /\ csg'.root \in {index, index + 1}
           /\ last'.ret \in {index, index + 1} \ {csg'.root}
           /\ last'.ret > csg'.root
           /\ At(csg'.nodes, csg'.root).operation = last'.args.op
           /\ At(csg'.nodes, csg'.root).children = <<csg.root, last'.ret>>
           /\ At(csg'.nodes, last'.ret).primitive = last'.args.prim
           /\ IsLeaf(At(csg'.nodes, last'.ret))
           /\ kept.parent = csg'.root
           /\ kept.children = old.children
           /\ kept.operation = old.operation
           /\ kept.primitive = old.primitive]_vars

\* add_edit has wrapped a root that was itself an operation node.
C4_Witness ==
  /\ last.fn = "add_edit"
  /\ Len(csg.nodes) >= 5
  /\ csg.root = Len(csg.nodes) - 2 /\ last.ret = Len(csg.nodes) - 1
  /\ At(csg.nodes, csg.root).children[1] = last.parent
  /\ ~IsLeaf(At(csg.nodes, last.parent))
\* C5 as stated: from a one-leaf tree whose root is index 0,
\* add_edit(tree, 0, op, prim2) gives a 3-node tree whose root is index 2
\* with root.children = (0,1), node 0 still a leaf.
C5_RootIsIndexTwo ==
  [][(Len(csg.nodes) = 1 /\ csg.root = 0 /\ last'.fn = "add_edit" /\ last'.parent = 0) =>
       /\ Len(csg'.nodes) = 3
       /\ csg'.root = 2
       /\ At(csg'.nodes, csg'.root).children = <<0, 1>>
       /\ IsLeaf(At(csg'.nodes, 0))]_vars

\* C5 amended: from a one-leaf tree whose root is index 0,
\* add_edit(tree, 0, op, prim2) gives a 3-node tree whose root is index 1
\* with root.children = (0,2); node 0 is still a leaf holding its primitive,
\* and the new leaf is index 2.
C5_RootIsIndexOne ==
  [][(Len(csg.nodes) = 1 /\ csg.root = 0 /\ last'.fn = "add_edit" /\ last'.parent = 0) =>
       /\ Len(csg'.nodes) = 3
       /\ csg'.root = 1
       /\ At(csg'.nodes, csg'.root).children = <<0, 2>>
       /\ IsLeaf(At(csg'.nodes, 0))
       /\ At(csg'.nodes, 0).primitive = At(csg.nodes, 0).primitive
       /\ last'.ret = 2]_vars

\* The second call, add_edit(tree, 0, op, prim2), has returned.
C5_Witness ==
  /\ Len(csg.nodes) = 3
  /\ last.fn = "add_edit" /\ last.parent = 0
  /\ IsLeaf(At(csg.nodes, 0)) /\ ~IsLeaf(At(csg.nodes, 1))

\* C6: add_edit with attach_at a non-root leaf L appends two leaves a and
\* b, a holding the primitive L held before the call and b the incoming
\* primitive; L keeps its index, its payload becomes the operation, its
\* children become (a, b), and the call returns b's index.
C6_LeafPromotion ==
  [][(/\ csg.nodes # <<>>
      /\ last'.fn = "add_edit"
      /\ last'.parent # csg.root
      /\ IsLeaf(At(csg.nodes, last'.parent))) =>
       LET index == Len(csg.nodes)
           L == last'.parent
       IN  /\ Len(csg'.nodes) = index + 2
           /\ IsLeaf(At(csg'.nodes, index))
           /\ At(csg'.nodes, index).primitive = At(csg.nodes, L).primitive
           /\ IsLeaf(At(csg'.nodes, index + 1))
           /\ At(csg'.nodes, index + 1).primitive = last'.args.prim
           /\ At(csg'.nodes, L).operation = last'.args.op
           /\ At(csg'.nodes, L).children = <<index, index + 1>>
           /\ last'.ret = index + 1]_vars

\* C7: add_edit with attach_at a node that has two children and is not the
\* root fails, and leaves the tree as it was: node count, root, and every
\* node's children and payload.
C7_InvalidAttachRejected ==
  [][(/\ csg.nodes # <<>>
      /\ last'.fn = "add_edit"
      /\ last'.parent # csg.root
      /\ ~IsLeaf(At(csg.nodes, last'.parent))) =>
       /\ status' = "aborted"
       /\ csg' = csg]_vars

\* What C8 allows a call to do to the node at index i: nothing; or, for a
\* non-root attach point that is a leaf, to make it an operation node; or,
\* for the old root, to set its parent field.
FrameAt(i) ==
  LET old == At(csg.nodes, i)
      new == At(csg'.nodes, i)
  IN  \/ new = old
      \/ /\ i = last'.parent /\ i # csg.root
         /\ IsLeaf(old) /\ ~IsLeaf(new)
         /\ new.parent = old.parent
      \/ /\ i = last'.parent /\ i = csg.root
         /\ new = [old EXCEPT !.parent = csg'.root]

\* C8: every add_edit leaves len(nodes) the same or larger, and every node
\* below the old length unchanged, except that the attach_at node may be
\* promoted from leaf to operation (non-root case) and the old root's parent
\* field may be set (root case).
C8_AppendOnlyFrame ==
  [][/\ Len(csg'.nodes) >= Len(csg.nodes)
     /\ \A i \in Indices(csg) : FrameAt(i)]_vars

\* C8 for the calls whose attach point is the root or a leaf: holds under
\* Spec and SpecApi.
C8_FrameWhenAttachAccepted ==
  [][(csg.nodes = <<>> \/ last'.parent = csg.root
        \/ IsLeaf(At(csg.nodes, last'.parent))) =>
       /\ Len(csg'.nodes) >= Len(csg.nodes)
       /\ \A i \in Indices(csg) : FrameAt(i)]_vars

\* C9: every index a call has returned names a leaf holding the primitive
\* passed to that call, for as long as the index has not been used as a
\* non-root attach point, and add_edit still accepts it as an attach point.
C9_ReturnedIndicesStayLeaves ==
  \A h \in handles :
    /\ h.index \in Indices(csg)
    /\ IsLeaf(At(csg.nodes, h.index))
    /\ At(csg.nodes, h.index).primitive = h.prim
    /\ (h.index = csg.root \/ attach_asserts_hold(csg, h.index))

\* Four calls have returned; the index the first one returned is still held
\* after later calls grew the tree around it.
C9_Witness ==
  /\ Len(csg.nodes) = 7
  /\ Cardinality(handles) >= 3
  /\ \E h \in handles : h.index = 0 /\ At(csg.nodes, 0).parent # -1

\* C10: add_sphere has the effect and result of add_edit with operation
\* {blend: +1, softness} and the Sphere primitive (center.x, center.y,
\* center.z, radius); subtract_sphere those of add_edit with {blend: -1,
\* softness} and the same primitive.
SameAsAddEdit(blend) ==
  LET a == last'.args
      sphere == [type |-> "sphere",
                 params |-> [i \in 1..ParamCount |->
                    CASE i <= 3 -> a.center[i] [] i = 4 -> a.radius [] OTHER -> 0]]
      r == add_edit(csg, last'.parent, [blend |-> blend, softness |-> a.softness], sphere)
  IN  IF r.aborted
        THEN status' = "aborted" /\ csg' = csg
        ELSE status' = status /\ csg' = r.csg /\ last'.ret = r.ret

C10_SphereWrappers ==
  [][/\ last'.fn = "add_sphere" => SameAsAddEdit(1)
     /\ last'.fn = "subtract_sphere" => SameAsAddEdit(-1)]_vars

\* C10 for add_sphere alone: holds under SpecApi.
C10_AddSphereOnly == [][last'.fn = "add_sphere" => SameAsAddEdit(1)]_vars

\* ------------------------------------------------------------ C16 (SpecMath)
\* C16: with softness 0, eval_operation at blend 1 returns min(f, g) and at
\* blend -1 returns max(f, -g), for all f and g.
C16_HardUnionSubtraction ==
  (calc.fn = "eval_operation" /\ calc.softness = Zero) =>
    /\ calc.blend = One => calc.result = min(calc.f, calc.g)
    /\ calc.blend = RNeg(One) => calc.result = max(calc.f, RNeg(calc.g))

\* A hard subtraction in which the subtracted operand decides the result.
C16_Witness ==
  /\ calc.fn = "eval_operation"
  /\ calc.softness = Zero
  /\ calc.blend = RNeg(One)
  /\ RLt(calc.f, RNeg(calc.g))
  /\ calc.g # Zero
  /\ calc.result = RNeg(calc.g)

\* ------------------------------------------------------------ C17 (SpecMath)
\* y lies in the closed interval between x and z.
Between(x, y, z) == (RLe(x, y) /\ RLe(y, z)) \/ (RLe(z, y) /\ RLe(y, x))

\* C17: at blend 0 eval_operation returns f whatever g is; from blend 0 to
\* blend 1 the result moves monotonically from f to smin(f, g, softness), from
\* blend 0 to blend -1 monotonically from f to smax(f, -g, softness), and it
\* never leaves the interval between its two endpoints.
C17_BlendInterpolation ==
  calc.fn = "eval_operation" =>
    LET at(b) == eval_operation(calc.f, calc.g, b, calc.softness)
        union == smin(calc.f, calc.g, calc.softness)
        subtraction == smax(calc.f, RNeg(calc.g), calc.softness)
    IN  /\ calc.blend = Zero => calc.result = calc.f
        /\ calc.blend = One => calc.result = union
        /\ calc.blend = RNeg(One) => calc.result = subtraction
        /\ RLe(Zero, calc.blend) =>
             /\ Between(calc.f, calc.result, union)
             /\ \A b \in BlendValues :
                  RLe(calc.blend, b) => Between(calc.result, at(b), union)
        /\ RLt(calc.blend, Zero) =>
             /\ Between(calc.f, calc.result, subtraction)
             /\ \A b \in BlendValues :
                  RLe(b, calc.blend) => Between(calc.result, at(b), subtraction)

\* A partial soft subtraction strictly between f and smax(f, -g, softness).
C17_Witness ==
  /\ calc.fn = "eval_operation"
  /\ calc.blend = R(-1, 2)
  /\ calc.softness = One
  /\ RLt(calc.f, calc.result)
  /\ RLt(calc.result, smax(calc.f, RNeg(calc.g), calc.softness))

\* ------------------------------------------------------------ C18 (SpecMath)
\* C18: smin(a, b, 0) = min(a, b) and smax(a, b, 0) = max(a, b); for k > 0
\* and |a - b| >= k the same equalities hold, and for |a - b| < k smin lies
\* at most k/4 below min(a, b) and smax at most k/4 above max(a, b).
C18_CompactSupport ==
  LET a == calc.f
      b == calc.g
      k == calc.softness
      far == RLe(k, abs(RSub(a, b)))
  IN  /\ calc.fn = "smin" =>
           /\ (k = Zero \/ far) => calc.result = min(a, b)
           /\ RLe(calc.result, min(a, b))
           /\ RLe(RSub(min(a, b), calc.result), RMul(k, Quarter))
      /\ calc.fn = "smax" =>
           /\ (k = Zero \/ far) => calc.result = max(a, b)
           /\ RLe(max(a, b), calc.result)
           /\ RLe(RSub(calc.result, max(a, b)), RMul(k, Quarter))

\* A smoothed minimum the whole k/4 below min(a, b).
C18_Witness ==
  /\ calc.fn = "smin"
  /\ calc.softness = R(2, 1)
  /\ calc.f = calc.g
  /\ calc.result = RSub(calc.f, R(1, 2))

\* ------------------------------------------------------------ C11 (SpecEval)
\* Every operation element names two earlier positions of the array, and
\* every primitive element has children (-1, -1).
TopologicallySorted(array) ==
  \A i \in 0..(Len(array) - 1) :
    LET inst == At(array, i)
    IN  IF "operation" \in DOMAIN inst
          THEN /\ inst.children[1] \in 0..(i - 1)
               /\ inst.children[2] \in 0..(i - 1)
          ELSE inst.children = <<-1, -1>>

\* The vector bake_eval_csg returns does not list the nodes in arena order.
Reordered(tree) ==
  \E n \in 1..Len(tree.nodes) : bake_eval_csg(tree).mapping[n] \notin {-1, n - 1}

\* C11: for every non-empty tree reachable through add_edit the array made
\* by bake_eval_csg is topologically sorted (an operation element's children
\* are earlier positions of the array, a primitive element has children
\* (-1, -1)) and the element of tree.root is the last one.
C11_BakeTopologicallySorted ==
  /\ TopologicallySorted(flat)
  /\ csg.nodes # <<>> =>
       LET b == bake_eval_csg(csg)
       IN  /\ TopologicallySorted(b.result)
           /\ b.mapping[csg.root + 1] = Len(b.result) - 1
           /\ b.asserts

\* A baked tree of three edits whose array order differs from the arena's.
C11_Witness ==
  /\ Len(csg.nodes) = 5
  /\ flat = bake_eval_csg(csg).result
  /\ Len(flat) = 5
  /\ Reordered(csg)

\* ------------------------------------------------------------ C12 (SpecEval)
\* C12: for every tree built by the edit operations and every sample point,
\* the flat evaluator on the baked array returns what the recursive evaluator
\* returns on the tree, and every values[child] the flat pass reads was
\* written at an earlier iteration.
C12_FlatEqualsRecursive ==
  csg.nodes # <<>> =>
    /\ \A position \in Points :
         LET f == eval_csg_flat(bake_eval_csg(csg).result, position)
         IN  f = eval_csg(csg, position) /\ "unwritten" \notin f.faults
    /\ (out.fn = "eval_csg_flat" /\ flat = bake_eval_csg(csg).result) =>
         /\ out.value = eval_csg(csg, out.point).value
         /\ out.faults = eval_csg(csg, out.point).faults

\* The flat evaluator has returned the value of a reordered three-edit tree
\* whose root subtracts.
C12_Witness ==
  /\ Len(csg.nodes) = 5
  /\ Reordered(csg)
  /\ At(csg.nodes, csg.root).operation = HalfSubtraction
  /\ flat = bake_eval_csg(csg).result
  /\ out.fn = "eval_csg_flat"
  /\ out.faults = {}
  /\ out.value = eval_csg(csg, out.point).value

\* ------------------------------------------------------------ C13 (SpecEval)
\* C13: bake_eval_csg leaves the tree (nodes and root) as it was, and the
\* array it returned is an independent snapshot: an add_edit on the tree
\* changes neither the array nor the value the flat evaluator makes of it.
C13_BakeSnapshot ==
  [][/\ last' = last => csg' = csg
     /\ csg' # csg =>
          /\ flat' = flat
          /\ \A position \in Points :
               eval_csg_flat(flat', position) = eval_csg_flat(flat, position)]_vars

\* The flat evaluator has run on an array baked before the last edit, and
\* returned a value the edited tree no longer has.
C13_Witness ==
  /\ flat # <<>>
  /\ Len(flat) < Len(csg.nodes)
  /\ out.fn = "eval_csg_flat"
  /\ out.faults = {}
  /\ out.value = eval_csg_flat(flat, out.point).value
  /\ out.value # eval_csg(csg, out.point).value

\* ------------------------------------------------------------ C15 (SpecEval)
\* sphere((0,0,0), 1) union(blend 1, softness 0) sphere((1.5,0,0), 1)
ScenarioTree(tree) ==
  /\ Len(tree.nodes) = 3
  /\ tree.root = 1
  /\ At(tree.nodes, 1).children = <<0, 2>>
  /\ At(tree.nodes, 1).operation = HardUnion
  /\ At(tree.nodes, 0).primitive = UnitSphere
  /\ At(tree.nodes, 2).primitive = ShiftedSphere

\* C15: after add_edit attaches primitive P at the root of a non-empty tree T
\* with operation op, the new tree evaluates at every point p to
\* eval_operation(eval(T, p), eval_primitive(p, P), op); the unit spheres at
\* (0,0,0) and (1.5,0,0) joined with blend 1, softness 0 evaluate to -1 at
\* the origin.
C15_AttachAtRootEval ==
  /\ [](ScenarioTree(csg) =>
          /\ eval_csg(csg, Origin) = Result(R(-1, 1), {})
          /\ (out.fn = "eval_csg" /\ out.point = Origin) => out.value = R(-1, 1))
  /\ [][(csg' # csg /\ csg.nodes # <<>> /\ last'.parent = csg.root) =>
          \A position \in Points :
            LET op == last'.args.op
                P == last'.args.prim
            IN  eval_csg(csg', position).value =
                  eval_operation(eval_csg(csg, position).value,
                                 eval_primitive(position, P.type, P.params).value,
                                 op.blend, op.softness)]_vars

\* The recursive evaluator has returned -1 at the origin for the scenario.
C15_Witness ==
  /\ ScenarioTree(csg)
  /\ last.parent = 0
  /\ out = [fn |-> "eval_csg", point |-> Origin, value |-> R(-1, 1), faults |-> {}]

\* ------------------------------------------------------------- C19 (SpecBox)
\* A box is among the leaves the root of the tree reaches.
HasBoxLeaf(tree) ==
  \E n \in Reachable(tree) :
    /\ IsLeaf(At(tree.nodes, n))
    /\ At(tree.nodes, n).primitive # Indet
    /\ At(tree.nodes, n).primitive.type = "box"

\* A box is among the elements of the baked array.
HasBoxElement(array) ==
  \E i \in 1..Len(array) :
    /\ "primitive" \in DOMAIN array[i]
    /\ array[i].primitive # Indet
    /\ array[i].primitive.type = "box"

\* C19: evaluating a Box never yields an ordinary finite distance: the
\* evaluation of a tree (or baked array) with a Box leaf surfaces the
\* unsupported primitive to the caller instead of returning a float.
C19_BoxUnsupported ==
  /\ (out.fn = "eval_csg" /\ HasBoxLeaf(csg)) => "unsupported" \in out.faults
  /\ (out.fn = "eval_csg_flat" /\ HasBoxElement(flat)) => "unsupported" \in out.faults

\* ------------------------------------------------------------ C20 (SpecEval)
\* C20: on a tree that satisfies the tree invariant (the empty tree and every
\* tree add_edit makes of spheres included) the recursive evaluator, the bake
\* and the flat evaluator of the baked array complete with a value: no access
\* outside a vector, no read of a primitive never set, no failed assert.
C20_EvaluationTotal ==
  [][(/\ last' = last
      /\ WellFormed(csg)
      /\ out'.fn = "eval_csg_flat" => (flat # <<>> /\ flat = bake_eval_csg(csg).result))
       => /\ status' = "running"
          /\ out'.faults = {}]_vars

\* On the non-empty trees whose leaves all had their primitive written (every
\* edit made the first leaf or attached at the root) the evaluators do
\* complete.
C20_InitialisedTreesTotal ==
  (/\ csg.nodes # <<>>
   /\ \A n \in Indices(csg) : IsLeaf(At(csg.nodes, n)) => At(csg.nodes, n).primitive # Indet)
    => \A position \in Points :
         /\ eval_csg(csg, position).faults = {}
         /\ eval_csg_flat(bake_eval_csg(csg).result, position).faults = {}

\* --------------------------------------------------------- C14 (SpecThreads)
\* C14: the evaluators are pure and deterministic: a call leaves the tree and
\* the baked array unchanged, and under every interleaving of concurrent
\* evaluations (each with a values buffer of its own) a call returns what
\* the evaluator returns when run alone, so two calls at the same point
\* return the same value.
C14_ConcurrentEvaluation ==
  /\ [](\A t \in Threads :
          LET call == threads.calls[t]
          IN  call.pc = "done" =>
                call.ret = IF call.fn = "eval_csg"
                             THEN eval_csg(csg, call.point)
                             ELSE eval_csg_flat(flat, call.point))
  /\ [](\A t, u \in Threads :
          (/\ threads.calls[t].pc = "done"
           /\ threads.calls[u].pc = "done"
           /\ threads.calls[t].point = threads.calls[u].point)
            => threads.calls[t].ret = threads.calls[u].ret)
  /\ [][csg' = csg /\ flat' = flat]_vars

\* One flat evaluation has returned while another, at a different point, is
\* in the middle of its loop with other values in its buffer.
C14_Witness ==
  /\ threads.calls[1].pc = "done"
  /\ threads.calls[1].fn = "eval_csg_flat"
  /\ threads.calls[1].ret = eval_csg(csg, threads.calls[1].point)
  /\ threads.calls[2].pc = "loop"
  /\ threads.calls[2].i = 3
  /\ threads.calls[2].point # threads.calls[1].point
  /\ threads.buffers[1].values # threads.buffers[2].values

\* --------------------------------------------------------------- C25 (Spec)
Leaves(tree) == {i \in Indices(tree) : IsLeaf(At(tree.nodes, i))}

ArenaCounts(tree) ==
  LET n == EditCount(tree)
  IN  /\ Len(tree.nodes) = 2 * n - 1
      /\ Cardinality(Leaves(tree)) = n
      /\ Cardinality(Indices(tree) \ Leaves(tree)) = n - 1
      /\ Reachable(tree) = Indices(tree)

\* C25: after n >= 1 successful add_edit calls the arena holds 2n-1 nodes, n
\* of them leaves and n-1 operation nodes, every node is reachable from root,
\* and the index each call returns is len(nodes)-1 after the call.
C25_ArenaCounts ==
  csg.nodes # <<>> =>
    /\ ArenaCounts(csg)
    /\ status = "running" => last.ret = Len(csg.nodes) - 1

\* The same in the build that keeps the asserts of add_edit.
C25_CountsWhenAssertsKept == (csg.nodes # <<>> /\ ~ndebug) => ArenaCounts(csg)

\* --------------------------------------------------------------- C26 (Spec)
\* C26: after any sequence of add_edit calls the root's parent is -1 and the
\* two children of every node name that node as their parent.
C26_ParentsAgreeWithChildren ==
  /\ csg.nodes # <<>> => At(csg.nodes, csg.root).parent = -1
  /\ \A n \in Indices(csg) \ Leaves(csg) :
       /\ At(csg.nodes, At(csg.nodes, n).children[1]).parent = n
       /\ At(csg.nodes, At(csg.nodes, n).children[2]).parent = n

\* A tree of four calls in which a leaf below the root was attached at.
C26_Witness ==
  /\ Len(csg.nodes) = 7
  /\ \E n \in Indices(csg) \ Leaves(csg) :
       /\ n # csg.root
       /\ At(csg.nodes, n).children[1] > n
       /\ At(csg.nodes, At(csg.nodes, n).children[1]).parent = n

\* --------------------------------------------------------------- C23 (Spec)
\* The number of nodes on the longest path that eval_csg and bake_eval_csg
\* descend from the nodes in frontier, counted up to fuel.
RECURSIVE PathNodes(_, _, _)
PathNodes(tree, frontier, fuel) ==
  IF frontier = {} \/ fuel = 0 THEN 0
  ELSE 1 + PathNodes(tree, UNION {Kids(tree, i) : i \in frontier}, fuel - 1)

\* The depth the recursion reaches from root; more than len(nodes) when the
\* recursion does not end.
RecursionDepth(tree) ==
  PathNodes(tree, IF tree.root = -1 THEN {} ELSE {tree.root}, Len(tree.nodes) + 1)

\* C23: on every tree reachable through add_edit the recursions of eval_csg
\* and bake_eval_csg end, at a depth of at most the number of add_edit calls
\* made: after n edits no root-to-leaf path has more than n nodes.
C23_RecursionDepthBounded == RecursionDepth(csg) <= EditCount(csg)

\* Four calls, each of which has lengthened the longest path.
C23_Witness ==
  /\ EditCount(csg) = 4
  /\ RecursionDepth(csg) = 4

\* ----------------------------------------------------------- C27 (SpecBake)
\* The element made of node n carries its payload: the primitive of a leaf,
\* the blend, softness and mapped children (in the same order) of an
\* operation node.
Carried(tree, b, n) ==
  LET node == At(tree.nodes, n)
      inst == At(b.result, b.mapping[n + 1])
  IN  IF IsLeaf(node)
        THEN inst = [children |-> <<-1, -1>>, primitive |-> node.primitive]
        ELSE inst = [children |-> <<b.mapping[node.children[1] + 1],
                                    b.mapping[node.children[2] + 1]>>,
                     operation |-> [blend |-> node.operation.blend,
                                    softness |-> node.operation.softness]]

\* The bake b of tree has one element for each node of the set visited, and
\* none for any other node.
BakesExactly(tree, b, visited) ==
  /\ Len(b.result) = Cardinality(visited)
  /\ {b.mapping[n + 1] : n \in visited} = 0..(Len(b.result) - 1)
  /\ \A n \in Indices(tree) \ visited : b.mapping[n + 1] = -1
  /\ \A n \in visited : Carried(tree, b, n)

\* C27: the bake of a tree reachable through add_edit visits every node once:
\* the array returned has len(nodes) elements, the mapping is a bijection
\* onto [0, len(nodes)) with no -1 left, and every element carries the
\* payload of its node, children mapped in the same (x, y) order.
C27_BakeVisitsEveryNode ==
  [][(flat' # flat /\ csg.nodes # <<>>) =>
       /\ flat' = bake_eval_csg(csg).result
       /\ Len(flat') = Len(csg.nodes)
       /\ BakesExactly(csg, bake_eval_csg(csg), Indices(csg))]_vars

\* What does hold: the bake visits once every node that root reaches.
C27_BakeVisitsReachableNodes ==
  [][(flat' # flat /\ csg.nodes # <<>>) =>
       /\ flat' = bake_eval_csg(csg).result
       /\ BakesExactly(csg, bake_eval_csg(csg), Reachable(csg))]_vars

\* ---------------------------------------------------------- C24 (SpecParse)

\* The child slots (node, 1 or 2) of the whole arena that hold a child.
ArenaSlots(tree) ==
  {s \in Indices(tree) \X {1, 2} : At(tree.nodes, s[1]).children[s[2]] # -1}

\* No node is the child of two parents (or twice the child of one).
NoSharing(tree) ==
  \A s, t \in ArenaSlots(tree) :
    s # t => At(tree.nodes, s[1]).children[s[2]] # At(tree.nodes, t[1]).children[t[2]]

\* No node is a descendant of itself.
NoCycle(tree) == \A i \in Indices(tree) : i \notin Descendants(tree, i)

\* Every declared name stands for a node reachable from root.
DeclaredReachable(tree, nm) == \A n \in DOMAIN nm : nm[n] \in Reachable(tree)

\* C24: after every statement parse_csg has read, no node of the tree is the
\* child of two parents or a descendant of itself, and every declared node
\* is reachable from root.
C24_ParsedTreeInvariant ==
  (last.fn = "parse_csg" /\ status = "running") =>
    /\ NoSharing(csg)
    /\ NoCycle(csg)
    /\ DeclaredReachable(csg, names)

\* ------------------------------------------------------- C29 (SpecParallel)

\* func has been called once with every pixel of the image and with nothing
\* else.
ExactlyOnce(p) ==
  /\ DOMAIN p.calls = Pixels(p.size)
  /\ \A pixel \in DOMAIN p.calls : p.calls[pixel] = 1

\* C29: when parallel_for(size, func) returns, func has been called exactly
\* once for every pixel (i, j) with 0 <= i < size.x and 0 <= j < size.y, and
\* with no other pixel.
C29_EveryPixelOnce == pf.pc = "returned" => ExactlyOnce(pf)

\* What holds whatever hardware_concurrency() returns: no pixel is passed to
\* func twice and none lies outside the image.
C29_NoPixelTwiceOrOutside ==
  /\ DOMAIN pf.calls \subseteq Pixels(pf.size)
  /\ \A pixel \in DOMAIN pf.calls : pf.calls[pixel] = 1

\* With at least one worker, every pixel has had its call when parallel_for
\* returns.
C29_EveryPixelOnceWithWorkers ==
  (pf.pc = "returned" /\ pf.hardware_concurrency >= 1) => ExactlyOnce(pf)

\* A parallel_for that was called returns.
C29_Terminates == (pf.pc = "running") ~> (pf.pc = "returned")

\* -------------------------------------------------------- C22 (SpecHostFair)

\* C22: once render_stop is true the running render task ends, so the wait
\* on render_future in reset_display and in ~app_state returns; and the task
\* starts no sample pass once it has seen the flag set (at the top of its
\* loop or in a pixel of the pass before) or while the flag is set.
C22_Cancellation ==
  /\ (app.render_stop /\ Rendering(app)) ~> (app.task.pc = "done")
  /\ (app.ui = "join") ~> (app.ui \in {"commands", "exited"})
  /\ [][(app.task.pc = "check" /\ app'.task.pc = "pass")
          => (~app.task.observed /\ ~app.render_stop)]_vars

\* A render task that saw the flag has ended before its last pass, and the
\* wait of reset_display is about to return.
C22_Witness ==
  /\ app.ui = "join"
  /\ app.render_future = "valid"
  /\ app.task.pc = "done"
  /\ app.task.observed
  /\ app.task.sample < MaxSamples

\* ------------------------------------------------------------ C28 (SpecHost)

\* The ids of the commands in the queue, front first.
Pending(a) == [k \in 1..Len(a.commands) |-> a.commands[k].id]

\* C28: every command enqueued with run is executed by reset_display once,
\* in the order of enqueueing (the commands executed so far, followed by the
\* queue, are the commands enqueued so far); commands execute only between
\* the end of one render task and the start of the next; and the queue is
\* empty when the next task starts and when reset_display returns.
C28_CommandsInOrder ==
  /\ [](app.executed \o Pending(app) = [k \in 1..app.enqueued |-> k])
  /\ [][app'.executed # app.executed
          => /\ app.ui = "commands"
             /\ app.render_future = "invalid"
             /\ ~Rendering(app)
             /\ ~Rendering(app')
             /\ app'.executed = app.executed \o Pending(app)]_vars
  /\ [][(app.ui # "idle" /\ app'.ui = "idle")
          => (app'.commands = <<>> /\ Rendering(app') /\ ~Rendering(app))]_vars

\* One reset_display has found two commands in the queue and has executed
\* both; the next render task is not started yet.
C28_Witness ==
  /\ app.ui = "start"
  /\ app.executed = <<1, 2>>
  /\ app.commands = <<>>
  /\ app.handler = "keycb"
  /\ app.task.pc \in {"none", "done"}

\* ------------------------------------------------------------ C21 (SpecHost)

\* C21: no step writes the tree while the render task is running.
C21_OneWriter == [][csg' # csg => ~Rendering(app)]_vars

\* The part that holds: a reload replaces the tree only after the render
\* task has been stopped and joined.
C21_ReloadQuiesced ==
  [][(csg' # csg /\ app.ui = "commands")
      => (app.render_future = "invalid" /\ ~Rendering(app))]_vars

\* ------------------------------------------------------------ C30 (SpecHost)

\* C30: whenever draw_glwidgets can run (the UI thread is between two
\* callbacks), selected is an index of the tree.
C30_SelectedValid ==
  (app.ui = "idle" /\ status = "running") => app.selected \in Indices(csg)

\* The part that holds: the keys alone keep selected inside a non-empty tree
\* that no reload has replaced.
C30_KeysKeepSelectedValid ==
  (app.ui = "idle" /\ status = "running" /\ app.executed = <<>> /\ csg.nodes # <<>>)
    => app.selected \in Indices(csg)

====
